---- MODULE Spec2Model ----
(***************************************************************************)
(* Model of src/server.js: the storage endpoints of the API-testing-tool   *)
(* backend (history, collections, collection requests, clear, stats) over  *)
(* the in-memory fallback store and over the durable datastore, and the    *)
(* relay endpoint (/api/proxy).                                            *)
(*                                                                         *)
(* Conventions                                                             *)
(*  - A JavaScript string that the code only tests for truthiness and      *)
(*    compares with === is a TLA+ string; "" stands for an absent          *)
(*    (undefined) or empty parameter, both of which are falsy.             *)
(*  - A JavaScript string that the code inspects (name.trim(), parseInt)   *)
(*    is a sequence of one-character strings; <<>> stands for an absent    *)
(*    or empty parameter.                                                  *)
(*  - Date.now() is the variable now; ids are Date.now().toString(), kept  *)
(*    as the integer (toString is injective on integers, and the code      *)
(*    only compares ids with ===).                                         *)
(*  - Every stored item carries a ghost field seq, the serial number of    *)
(*    its insertion, which no handler reads: it names "the order of        *)
(*    insertion" in the properties even when two ids collide.              *)
(***************************************************************************)
EXTENDS Integers, Sequences, FiniteSets, TLC

VARIABLES
    supabase,                 \* server.js:17  TRUE iff the durable client was created
    memoryHistory,            \* server.js:29
    memoryCollections,        \* server.js:30
    memoryCollectionRequests, \* server.js:31
    now,                      \* Date.now()
    serial,                   \* ghost: number of items inserted so far
    budget,                   \* ghost: number of requests still to be handled
    last,                     \* the request handled last and the response sent for it
    pre,                      \* ghost: the three sequences as that request found them
    db,                       \* the tables of the durable datastore
    proxy                     \* the /api/proxy request being relayed

vars == <<supabase, memoryHistory, memoryCollections, memoryCollectionRequests,
          now, serial, budget, last, pre, db, proxy>>

----------------------------------------------------------------------------
(* Bounds of the model *)

MaxOps == 3            \* requests handled in one behaviour of Spec, SpecHistory
MaxCollectionOps == 4  \* requests handled in one behaviour of SpecCollections
MaxTicks == 1          \* milliseconds the clock advances in one behaviour
Prefill == 99          \* history items already saved in the pre-filled initial state

(* Program constants *)

HistoryCap == 100      \* server.js:176
DefaultLimit == 50     \* server.js:190

----------------------------------------------------------------------------
(* JavaScript primitives used by the handlers *)

Min(a, b) == IF a < b THEN a ELSE b
Max(a, b) == IF a > b THEN a ELSE b

\* Array.prototype.slice(start, end): negative indices count from the end.
SliceIndex(i, len) == IF i < 0 THEN Max(len + i, 0) ELSE Min(i, len)

Slice(s, start, end) ==
    LET k == SliceIndex(start, Len(s))
        f == SliceIndex(end, Len(s))
    IN  IF f <= k THEN <<>> ELSE SubSeq(s, k + 1, f)

\* Mutant of Unshift: the insert works on a copy taken before the previous
\* insert, whose item is lost
Unshift_Stale(s, x) == IF s = <<>> THEN <<x>> ELSE <<x>> \o Tail(s)

\* Array.prototype.unshift(x): x becomes the first element.
Unshift(s, x) == <<x>> \o s

\* v || d for strings
OrElse(v, d) == IF v = "" THEN d ELSE v

\* String.prototype.trim() on a sequence of characters
IsSpace(c) == c = " "

RECURSIVE TrimStart(_)
TrimStart(s) ==
    IF s = <<>> THEN <<>>
    ELSE IF IsSpace(Head(s)) THEN TrimStart(Tail(s)) ELSE s

RECURSIVE TrimEnd(_)
TrimEnd(s) ==
    IF s = <<>> THEN <<>>
    ELSE IF IsSpace(s[Len(s)]) THEN TrimEnd(SubSeq(s, 1, Len(s) - 1)) ELSE s

Trim(s) == TrimEnd(TrimStart(s))

\* parseInt(string): leading white space, an optional sign, then the longest
\* prefix of decimal digits; NaN when there is no digit (or no string at all).
Digits == {"0", "1", "2", "3", "4", "5", "6", "7", "8", "9"}

DigitVal(c) ==
    CASE c = "0" -> 0 [] c = "1" -> 1 [] c = "2" -> 2 [] c = "3" -> 3
      [] c = "4" -> 4 [] c = "5" -> 5 [] c = "6" -> 6 [] c = "7" -> 7
      [] c = "8" -> 8 [] c = "9" -> 9

RECURSIVE DigitPrefix(_, _)
DigitPrefix(s, acc) ==
    IF s = <<>> \/ Head(s) \notin Digits THEN acc
    ELSE DigitPrefix(Tail(s), 10 * acc + DigitVal(Head(s)))

NaN == [nan |-> TRUE, val |-> 0]

ParseInt(str) ==
    LET s == TrimStart(str)
        signed == s # <<>> /\ Head(s) \in {"-", "+"}
        body == IF signed THEN Tail(s) ELSE s
    IN  IF body = <<>> \/ Head(body) \notin Digits THEN NaN
        ELSE [nan |-> FALSE,
              val |-> IF signed /\ Head(s) = "-"
                        THEN 0 - DigitPrefix(body, 0)
                        ELSE DigitPrefix(body, 0)]

\* parseInt(x) || d : NaN and 0 are falsy
NumberOrElse(p, d) == IF p.nan \/ p.val = 0 THEN d ELSE p.val

----------------------------------------------------------------------------
(* Inputs *)

UserIds == {"", "u1"}                       \* user_id of a request; "" = absent
ClearUserIds == {"", "u1", "anonymous"}     \* user_id of DELETE /api/clear
\* A URL string is kept as what new URL() makes of it: its scheme, host and
\* path. A string with no scheme (a relative reference, or no string at all)
\* is one that new URL() rejects.
GoodUrl == [scheme |-> "https", host |-> "x", path |-> "/get"]
BadUrl == [scheme |-> "", host |-> "", path |-> "x/get"]
Urls == {GoodUrl}
RequestUrls == {GoodUrl, BadUrl}
Methods == {"POST"}
\* headers, body and params of POST /api/history
SomeHeaders == <<<<"accept", "text/plain">>>>
SomeParams == <<<<"q", "1">>>>
HistoryExtras == {[headers |-> <<>>, body |-> "", params |-> <<>>],
                  [headers |-> SomeHeaders, body |-> "payload",
                   params |-> SomeParams]}
Names == {<<>>, <<" ", " ">>, <<"a">>}      \* name of a collection
RequestNames == {"", "r"}                   \* name of a collection request; "" = absent
Limits == {<<>>, <<"0">>, <<"2">>, <<"-", "1">>, <<"a">>, <<"6", "0">>}

Store == [history |-> memoryHistory, collections |-> memoryCollections,
          requests |-> memoryCollectionRequests]

\* The durable tables before anything was inserted.
EmptyDb == [history |-> <<>>, collections |-> <<>>, requests |-> <<>>]

\* A url that is absent or the empty string.
NoUrl == [scheme |-> "", host |-> "", path |-> ""]

\* What POST /api/proxy was asked with.
NoProxyRequest == [url |-> NoUrl, method |-> "", headers |-> <<>>, body |-> "",
                   params |-> <<>>]

\* No /api/proxy request is being handled. The fields of proxy: pc, where the
\* handler stands ("idle", "fetch" = awaiting fetch, "body" = awaiting the
\* body, "done" = answered); request, startTime, finalUrl, fetchOptions,
\* endTime, response, the handler's locals; http and sent, the status and the
\* body of the answer; and three ghosts: attempts, the outbound calls made
\* for this request, responses, the answers sent for it, and failure, what
\* made the handler's catch run ("" when it did not).
ProxyIdle ==
    [pc |-> "idle", request |-> NoProxyRequest, startTime |-> 0,
     finalUrl |-> [url |-> NoUrl, appended |-> <<>>],
     fetchOptions |-> <<>>, endTime |-> 0, response |-> <<>>,
     http |-> 0, sent |-> <<>>, attempts |-> 0, responses |-> 0,
     failure |-> ""]

\* The fields of a request body that the handlers store as they come:
\* headers and params are lists of <<key, value>> entries, body is the JSON
\* value ("" when there is none).
NoFields == [url |-> [scheme |-> "", host |-> "", path |-> ""], method |-> "",
             headers |-> <<>>, body |-> "", params |-> <<>>]

NoArgs == [id |-> 0, user_id |-> "", limit |-> <<>>, name |-> <<>>,
           fields |-> NoFields]

----------------------------------------------------------------------------
(* Initial states: the store after construction, and a store into which    *)
(* Prefill history items were saved one millisecond apart by two users in  *)
(* turn (ids 1..Prefill, newest first).                                    *)

PrefillItem(k) ==
    [id |-> k, url |-> GoodUrl, method |-> "POST",
     headers |-> <<>>, body |-> "", params |-> <<>>,
     user_id |-> IF k % 2 = 1 THEN "u1" ELSE "anonymous",
     created_at |-> k, seq |-> k]

PrefilledHistory(n) == [i \in 1..n |-> PrefillItem(n + 1 - i)]

InitWith(sizes, ops) ==
    /\ supabase = FALSE
    /\ \E n \in sizes :
         /\ memoryHistory = PrefilledHistory(n)
         /\ serial = n
    /\ memoryCollections = <<>>
    /\ memoryCollectionRequests = <<>>
    /\ now = Prefill
    /\ budget = ops
    /\ last = [op |-> "none", args |-> NoArgs, status |-> 0, body |-> <<>>]
    /\ pre = Store
    /\ db = EmptyDb
    /\ proxy = ProxyIdle

Init == InitWith({0, Prefill}, MaxOps)
InitEmpty == InitWith({0}, MaxCollectionOps)

----------------------------------------------------------------------------
(* History endpoints *)

\* Mutant of KeepLast: one item short, slice(0, 99)
KeepLast_OneShort(h) == Slice(h, 0, HistoryCap - 1)

\* Mutant of KeepLast: slice(-100), which keeps the oldest items
KeepLast_Oldest(h) == Slice(h, 0 - HistoryCap, Len(h))

\* server.js:176  memoryHistory.slice(0, 100)
KeepLast(h) == Slice(h, 0, HistoryCap)

\* server.js:142-184  POST /api/history, memory branch
SaveHistory(url, method, headers, body, params, user_id) ==
    /\ budget > 0
    /\ ~supabase
    /\ LET historyItem == [id |-> now, url |-> url, method |-> method,
                           headers |-> headers, body |-> body,
                           params |-> params,
                           user_id |-> OrElse(user_id, "anonymous"),
                           created_at |-> now, seq |-> serial + 1]
       IN  /\ memoryHistory' = KeepLast(Unshift(memoryHistory, historyItem))
           /\ last' = [op |-> "SaveHistory",
                       args |-> [NoArgs EXCEPT
                                   !.user_id = user_id,
                                   !.fields = [url |-> url, method |-> method,
                                               headers |-> headers,
                                               body |-> body,
                                               params |-> params]],
                       status |-> 200, body |-> <<historyItem>>]
    /\ serial' = serial + 1
    /\ budget' = budget - 1
    /\ pre' = Store
    /\ UNCHANGED <<supabase, db, proxy, memoryCollections, memoryCollectionRequests, now>>

\* Mutant of UserHistory: the owner is not compared
UserHistory_AnyOwner(h, userId, limit) == Slice(h, 0, limit)

\* server.js:205-207  filter by user, then slice(0, limit)
UserHistory(h, userId, limit) ==
    Slice(SelectSeq(h, LAMBDA item : item.user_id = userId), 0, limit)

\* server.js:186-214  GET /api/history, memory branch
ListHistory(user_id, limitParam) ==
    /\ budget > 0
    /\ ~supabase
    /\ LET userId == OrElse(user_id, "anonymous")
           limit == NumberOrElse(ParseInt(limitParam), DefaultLimit)
       IN  last' = [op |-> "ListHistory",
                    args |-> [NoArgs EXCEPT !.user_id = user_id, !.limit = limitParam],
                    status |-> 200,
                    body |-> UserHistory(memoryHistory, userId, limit)]
    /\ budget' = budget - 1
    /\ pre' = Store
    /\ UNCHANGED <<supabase, db, proxy, memoryHistory, memoryCollections,
                   memoryCollectionRequests, now, serial>>

\* Mutant of WithoutHistoryItem: the owner is not compared
WithoutHistoryItem_AnyOwner(h, id, user_id) ==
    SelectSeq(h, LAMBDA item : item.id # id)

\* server.js:231-233  the filter of DELETE /api/history/:id
WithoutHistoryItem(h, id, user_id) ==
    SelectSeq(h, LAMBDA item :
        ~(item.id = id /\ item.user_id = OrElse(user_id, "anonymous")))

\* server.js:216-239  DELETE /api/history/:id, memory branch
DeleteHistory(id, user_id) ==
    /\ budget > 0
    /\ ~supabase
    /\ memoryHistory' = WithoutHistoryItem(memoryHistory, id, user_id)
    /\ last' = [op |-> "DeleteHistory",
                args |-> [NoArgs EXCEPT !.id = id, !.user_id = user_id],
                status |-> 200, body |-> <<>>]
    /\ budget' = budget - 1
    /\ pre' = Store
    /\ UNCHANGED <<supabase, db, proxy, memoryCollections, memoryCollectionRequests,
                   now, serial>>

----------------------------------------------------------------------------
(* Collections endpoints *)

\* Mutant of NameMissing: the name is not trimmed
NameMissing_NoTrim(name) == name = <<>>

\* server.js:246  !name || !name.trim()
NameMissing(name) == name = <<>> \/ Trim(name) = <<>>

\* server.js:242-278  POST /api/collections, memory branch
CreateCollection(name, user_id) ==
    /\ budget > 0
    /\ ~supabase
    /\ IF NameMissing(name)
         THEN /\ last' = [op |-> "CreateCollection",
                          args |-> [NoArgs EXCEPT !.user_id = user_id, !.name = name],
                          status |-> 400, body |-> <<>>]
              /\ UNCHANGED <<memoryCollections, serial>>
         ELSE LET collection == [id |-> now, name |-> name,
                                 user_id |-> OrElse(user_id, "anonymous"),
                                 created_at |-> now, seq |-> serial + 1]
              IN  /\ memoryCollections' = Unshift(memoryCollections, collection)
                  /\ serial' = serial + 1
                  /\ last' = [op |-> "CreateCollection",
                              args |-> [NoArgs EXCEPT !.user_id = user_id,
                                                      !.name = name],
                              status |-> 200, body |-> <<collection>>]
    /\ budget' = budget - 1
    /\ pre' = Store
    /\ UNCHANGED <<supabase, db, proxy, memoryHistory, memoryCollectionRequests, now>>

\* server.js:295-296
UserCollections(c, userId) == SelectSeq(c, LAMBDA item : item.user_id = userId)

\* server.js:280-303  GET /api/collections, memory branch
ListCollections(user_id) ==
    /\ budget > 0
    /\ ~supabase
    /\ last' = [op |-> "ListCollections",
                args |-> [NoArgs EXCEPT !.user_id = user_id],
                status |-> 200,
                body |-> UserCollections(memoryCollections,
                                         OrElse(user_id, "anonymous"))]
    /\ budget' = budget - 1
    /\ pre' = Store
    /\ UNCHANGED <<supabase, db, proxy, memoryHistory, memoryCollections,
                   memoryCollectionRequests, now, serial>>

\* server.js:320-322
WithoutCollection(c, id, user_id) ==
    SelectSeq(c, LAMBDA item :
        ~(item.id = id /\ item.user_id = OrElse(user_id, "anonymous")))

\* Mutant of WithoutRequestsOf: the cascade is left out
WithoutRequestsOf_None(r, id) == r

\* server.js:324-326
WithoutRequestsOf(r, id) == SelectSeq(r, LAMBDA req : req.collection_id # id)

\* server.js:305-332  DELETE /api/collections/:id, memory branch
DeleteCollection(id, user_id) ==
    /\ budget > 0
    /\ ~supabase
    /\ memoryCollections' = WithoutCollection(memoryCollections, id, user_id)
    /\ memoryCollectionRequests' = WithoutRequestsOf(memoryCollectionRequests, id)
    /\ last' = [op |-> "DeleteCollection",
                args |-> [NoArgs EXCEPT !.id = id, !.user_id = user_id],
                status |-> 200, body |-> <<>>]
    /\ budget' = budget - 1
    /\ pre' = Store
    /\ UNCHANGED <<supabase, db, proxy, memoryHistory, now, serial>>

\* new URL(url) throws a TypeError unless url is an absolute URL
ValidUrl(url) == url.scheme # ""

\* new URL(url).pathname
Pathname(url) == IF url.path = "" THEN "/" ELSE url.path

\* server.js:364  name || `${method} ${new URL(url).pathname}`, the pieces of
\* the template kept as a sequence
RequestName(name, method, url) ==
    IF name # "" THEN <<name>> ELSE <<method, " ", Pathname(url)>>

\* server.js:334-375  POST /api/collections/:id/requests, memory branch.
\* Building the request throws (and the catch answers 500) when there is no
\* name and new URL(url) rejects the url; nothing was stored by then.
AddCollectionRequest(id, url, method, name) ==
    /\ budget > 0
    /\ ~supabase
    /\ IF name = "" /\ ~ValidUrl(url)
         THEN /\ last' = [op |-> "AddCollectionRequest",
                          args |-> [NoArgs EXCEPT !.id = id],
                          status |-> 500, body |-> <<>>]
              /\ UNCHANGED <<memoryCollectionRequests, serial>>
         ELSE LET request == [id |-> now, collection_id |-> id, url |-> url,
                              method |-> method,
                              name |-> RequestName(name, method, url),
                              created_at |-> now, seq |-> serial + 1]
              IN  /\ memoryCollectionRequests' =
                         Unshift(memoryCollectionRequests, request)
                  /\ serial' = serial + 1
                  /\ last' = [op |-> "AddCollectionRequest",
                              args |-> [NoArgs EXCEPT !.id = id],
                              status |-> 200, body |-> <<request>>]
    /\ budget' = budget - 1
    /\ pre' = Store
    /\ UNCHANGED <<supabase, db, proxy, memoryHistory, memoryCollections, now>>

\* server.js:391-392
RequestsOf(r, id) == SelectSeq(r, LAMBDA item : item.collection_id = id)

\* server.js:377-399  GET /api/collections/:id/requests, memory branch
ListCollectionRequests(id) ==
    /\ budget > 0
    /\ ~supabase
    /\ last' = [op |-> "ListCollectionRequests",
                args |-> [NoArgs EXCEPT !.id = id],
                status |-> 200,
                body |-> RequestsOf(memoryCollectionRequests, id)]
    /\ budget' = budget - 1
    /\ pre' = Store
    /\ UNCHANGED <<supabase, db, proxy, memoryHistory, memoryCollections,
                   memoryCollectionRequests, now, serial>>

----------------------------------------------------------------------------
(* Clear and stats *)

\* Mutant of NotOwnedBy: the comparison is inverted
NotOwnedBy_Inverted(s, user_id) ==
    SelectSeq(s, LAMBDA item : item.user_id = user_id)

\* server.js:495-496  item.user_id !== user_id
NotOwnedBy(s, user_id) == SelectSeq(s, LAMBDA item : item.user_id # user_id)

\* server.js:498  memoryCollections.find(c => c.id === item.collection_id):
\* the first match, as a sequence of at most one element
FindCollection(c, id) ==
    LET hits == SelectSeq(c, LAMBDA x : x.id = id)
    IN  IF hits = <<>> THEN <<>> ELSE <<Head(hits)>>

\* server.js:497-500  the filter runs against the collections that are
\* stored when it runs, i.e. after line 496 has removed the user's own
ClearedRequests(r, c, user_id) ==
    SelectSeq(r, LAMBDA item :
        LET collection == FindCollection(c, item.collection_id)
        IN  collection = <<>> \/ collection[1].user_id # user_id)

\* server.js:489-516  DELETE /api/clear (there is no durable branch)
ClearAll(user_id) ==
    /\ budget > 0
    /\ IF user_id # ""
         THEN LET collections == NotOwnedBy(memoryCollections, user_id)
              IN  /\ memoryHistory' = NotOwnedBy(memoryHistory, user_id)
                  /\ memoryCollections' = collections
                  /\ memoryCollectionRequests' =
                         ClearedRequests(memoryCollectionRequests, collections,
                                         user_id)
         ELSE /\ memoryHistory' = <<>>
              /\ memoryCollections' = <<>>
              /\ memoryCollectionRequests' = <<>>
    /\ last' = [op |-> "ClearAll",
                args |-> [NoArgs EXCEPT !.user_id = user_id],
                status |-> 200,
                body |-> <<[historyCount |-> Len(memoryHistory'),
                            collectionsCount |-> Len(memoryCollections')]>>]
    /\ budget' = budget - 1
    /\ pre' = Store
    /\ UNCHANGED <<supabase, db, proxy, now, serial>>

\* server.js:519-566  GET /api/stats, the branches that read the memory
Stats(user_id) ==
    /\ budget > 0
    /\ ~(supabase /\ user_id # "")
    /\ last' = [op |-> "Stats",
                args |-> [NoArgs EXCEPT !.user_id = user_id],
                status |-> 200,
                body |-> <<[historyCount |->
                              IF user_id # ""
                                THEN Len(SelectSeq(memoryHistory,
                                         LAMBDA h : h.user_id = user_id))
                                ELSE Len(memoryHistory),
                            collectionsCount |->
                              IF user_id # ""
                                THEN Len(SelectSeq(memoryCollections,
                                         LAMBDA c : c.user_id = user_id))
                                ELSE Len(memoryCollections),
                            requestsCount |-> Len(memoryCollectionRequests)]>>]
    /\ budget' = budget - 1
    /\ pre' = Store
    /\ UNCHANGED <<supabase, db, proxy, memoryHistory, memoryCollections,
                   memoryCollectionRequests, now, serial>>

----------------------------------------------------------------------------
(* The clock *)

Tick ==
    /\ now < Prefill + MaxTicks
    /\ now' = now + 1
    /\ UNCHANGED <<supabase, db, proxy, memoryHistory, memoryCollections,
                   memoryCollectionRequests, serial, budget, last, pre>>

\* The ids a DELETE /api/history/:id request is tried with: the newest two
\* and the oldest stored ids, and one id that is never stored.
MissingId == 0

HistoryIds ==
    {memoryHistory[i].id : i \in {j \in {1, 2, Len(memoryHistory)} :
                                     j \in 1..Len(memoryHistory)}}
      \cup {MissingId}

\* The ids a request on /api/collections/:id is tried with: the stored
\* collections' ids, and one id that is never stored.
CollectionIds == {memoryCollections[i].id : i \in 1..Len(memoryCollections)}
                   \cup {MissingId}

\* Every endpoint, from the empty and from the pre-filled store.
Next ==
    \/ \E url \in Urls, method \in Methods, user_id \in UserIds :
         SaveHistory(url, method, <<>>, "", <<>>, user_id)
    \/ \E user_id \in UserIds, limitParam \in Limits :
         ListHistory(user_id, limitParam)
    \/ \E id \in HistoryIds, user_id \in UserIds : DeleteHistory(id, user_id)
    \/ \E name \in Names, user_id \in UserIds : CreateCollection(name, user_id)
    \/ \E user_id \in UserIds : ListCollections(user_id)
    \/ \E id \in CollectionIds, user_id \in UserIds : DeleteCollection(id, user_id)
    \/ \E id \in CollectionIds, url \in RequestUrls, method \in Methods,
          name \in RequestNames : AddCollectionRequest(id, url, method, name)
    \/ \E id \in CollectionIds : ListCollectionRequests(id)
    \/ \E user_id \in ClearUserIds : ClearAll(user_id)
    \/ \E user_id \in UserIds : Stats(user_id)
    \/ Tick

Spec == Init /\ [][Next]_vars

\* The history endpoints and the two that read or clear the history.
NextHistory ==
    \/ \E url \in Urls, method \in Methods, extra \in HistoryExtras,
          user_id \in UserIds :
         SaveHistory(url, method, extra.headers, extra.body, extra.params,
                     user_id)
    \/ \E user_id \in UserIds, limitParam \in Limits :
         ListHistory(user_id, limitParam)
    \/ \E id \in HistoryIds, user_id \in UserIds : DeleteHistory(id, user_id)
    \/ \E user_id \in ClearUserIds : ClearAll(user_id)
    \/ \E user_id \in UserIds : Stats(user_id)
    \/ Tick

SpecHistory == Init /\ [][NextHistory]_vars

\* The collection endpoints, with POST /api/history and the two endpoints
\* that read or clear all three sequences, from the empty store.
NextCollections ==
    \/ \E url \in Urls, method \in Methods, user_id \in UserIds :
         SaveHistory(url, method, <<>>, "", <<>>, user_id)
    \/ \E name \in Names, user_id \in UserIds : CreateCollection(name, user_id)
    \/ \E user_id \in UserIds : ListCollections(user_id)
    \/ \E id \in CollectionIds, user_id \in UserIds : DeleteCollection(id, user_id)
    \/ \E id \in CollectionIds, url \in RequestUrls, method \in Methods,
          name \in RequestNames : AddCollectionRequest(id, url, method, name)
    \/ \E id \in CollectionIds : ListCollectionRequests(id)
    \/ \E user_id \in ClearUserIds : ClearAll(user_id)
    \/ \E user_id \in UserIds : Stats(user_id)
    \/ Tick

SpecCollections == InitEmpty /\ [][NextCollections]_vars

----------------------------------------------------------------------------
(* The relay endpoint, POST /api/proxy *)

MaxProxyOps == 2       \* /api/proxy requests handled in one behaviour of SpecProxy

FetchTimeout == 30000  \* server.js:90

\* Inputs of POST /api/proxy. A key or a value of params is a sequence of
\* characters; params is the list of the entries of the object, in the order
\* Object.entries gives them; <<>> is an absent or empty params.
ProxyUrls == {NoUrl, BadUrl, GoodUrl}
ProxyMethods == {"", "GET", "HEAD", "POST"}
ProxyHeaders == {<<>>, <<<<"Content-Type", "text/plain">>>>}
ProxyBodies == {"", "payload"}
ProxyParams ==
    {<<>>,
     << <<<<"a">>, <<"1">>>>, <<<<"b">>, <<>>>> >>,
     << <<<<"a">>, <<>>>> >>,
     << <<<<>>, <<"1">>>>, <<<<"b", " ">>, <<"&", "=">>>>,
        <<<<"a">>, <<"%", "+">>>> >>}

\* Mutant of Rejection: only an absent url is refused
Rejection_RequiredOnly(url) == IF url = NoUrl THEN "URL is required" ELSE ""

\* server.js:60-69  the message the request is refused with, "" when it is
\* not refused
Rejection(url) ==
    IF url = NoUrl THEN "URL is required"
    ELSE IF ~ValidUrl(url) THEN "Invalid URL format"
    ELSE ""

\* URLSearchParams.toString(): the application/x-www-form-urlencoded
\* serializer. A space becomes +, letters and digits stay, and the other
\* characters of the inputs are percent-encoded.
FormEncodeChar(c) ==
    CASE c = " " -> <<"+">>
      [] c = "&" -> <<"%", "2", "6">>
      [] c = "=" -> <<"%", "3", "D">>
      [] c = "+" -> <<"%", "2", "B">>
      [] c = "%" -> <<"%", "2", "5">>
      [] OTHER -> <<c>>

RECURSIVE FormEncode(_)
FormEncode(s) ==
    IF s = <<>> THEN <<>> ELSE FormEncodeChar(Head(s)) \o FormEncode(Tail(s))

RECURSIVE Serialize(_)
Serialize(list) ==
    IF list = <<>> THEN <<>>
    ELSE FormEncode(list[1][1]) \o <<"=">> \o FormEncode(list[1][2])
           \o (IF Len(list) > 1 THEN <<"&">> \o Serialize(Tail(list)) ELSE <<>>)

\* Mutant of Wanted: only the key is tested
Wanted_KeyOnly(entry) == entry[1] # <<>>

\* server.js:78  if (key && value)
Wanted(entry) == entry[1] # <<>> /\ entry[2] # <<>>

\* server.js:73-81  finalUrl: the url and the characters appended to it
FinalUrl(url, params) ==
    [url |-> url,
     appended |-> IF params # <<>>
                    THEN <<"?">> \o Serialize(SelectSeq(params, Wanted))
                    ELSE <<>>]

\* { 'Content-Type': 'application/json', ...headers }: an entry of headers
\* replaces the default with the same key
MergeHeaders(defaults, headers) ==
    SelectSeq(defaults,
              LAMBDA d : \A i \in DOMAIN headers : headers[i][1] # d[1])
      \o headers

\* JSON.stringify(body): the JSON text of the value
JsonStringify(value) == [json |-> value]

\* server.js:83-95  fetchOptions; body is <<>> when no body is attached
FetchOptions(method, headers, body) ==
    [method |-> OrElse(method, "GET"),
     headers |-> MergeHeaders(<<<<"Content-Type", "application/json">>>>,
                              headers),
     redirect |-> "follow",
     timeout |-> FetchTimeout,
     body |-> IF method # "GET" /\ method # "HEAD" /\ body # ""
                THEN <<JsonStringify(body)>> ELSE <<>>]

\* Mutant of ErrorResponse: the elapsed time is reported
ErrorResponse_Timed(message) ==
    [http |-> 500,
     sent |-> [error |-> message, time |-> now - proxy.startTime, size |-> 0,
               status |-> 500]]

\* server.js:130-138  the answer of the catch
ErrorResponse(message) ==
    [http |-> 500,
     sent |-> [error |-> message, time |-> 0, size |-> 0, status |-> 500]]

\* server.js:56-95  POST /api/proxy up to the call of fetch
ProxyRequest(url, method, headers, body, params) ==
    /\ budget > 0
    /\ proxy.pc \in {"idle", "done"}
    /\ LET request == [url |-> url, method |-> method, headers |-> headers,
                       body |-> body, params |-> params]
       IN  IF Rejection(url) # ""
             THEN proxy' = [ProxyIdle EXCEPT
                              !.pc = "done", !.request = request,
                              !.http = 400,
                              !.sent = [error |-> Rejection(url)],
                              !.responses = 1]
             ELSE proxy' = [ProxyIdle EXCEPT
                              !.pc = "fetch", !.request = request,
                              !.startTime = now,
                              !.finalUrl = FinalUrl(url, params),
                              !.fetchOptions =
                                  <<FetchOptions(method, headers, body)>>]
    /\ budget' = budget - 1
    /\ UNCHANGED <<supabase, db, memoryHistory, memoryCollections,
                   memoryCollectionRequests, now, serial, last, pre>>

\* fetch refuses, before any input or output, a GET or HEAD request that
\* has a body (TypeError: Request with GET/HEAD method cannot have body).
FetchRefuses(options) ==
    options.body # <<>> /\ options.method \in {"GET", "HEAD"}

\* Mutant of Caught: the catch sends no answer
Caught_Silent(failure, message) ==
    [proxy EXCEPT !.pc = "done", !.failure = failure]

\* The handler's catch answers.
Caught(failure, message) ==
    [proxy EXCEPT !.pc = "done", !.failure = failure,
                  !.http = ErrorResponse(message).http,
                  !.sent = ErrorResponse(message).sent,
                  !.responses = @ + 1]

\* server.js:99, 130-138  fetch rejects without an outbound call
FetchThrows ==
    /\ proxy.pc = "fetch"
    /\ FetchRefuses(proxy.fetchOptions[1])
    /\ proxy' = Caught("request",
                       "Request with GET/HEAD method cannot have body")
    /\ UNCHANGED <<supabase, db, memoryHistory, memoryCollections,
                   memoryCollectionRequests, now, serial, budget, last, pre>>

\* What makes the outbound call fail.
NetworkErrors == {"ECONNREFUSED", "network timeout"}

\* server.js:99, 130-138  the outbound call fails
FetchFails(message) ==
    /\ proxy.pc = "fetch"
    /\ ~FetchRefuses(proxy.fetchOptions[1])
    /\ proxy' = [Caught("network", message) EXCEPT !.attempts = @ + 1]
    /\ UNCHANGED <<supabase, db, memoryHistory, memoryCollections,
                   memoryCollectionRequests, now, serial, budget, last, pre>>

\* The responses of the target: status, content-type header ("" when there
\* is none) and the text of the body.
TargetResponses ==
    [status : {200, 404},
     contentType : {"application/json; charset=utf-8", "text/plain", ""},
     text : {"[1]", "oops"}]

\* server.js:99-105  the target answers, and the handler goes on to the body
FetchResolves(response) ==
    /\ proxy.pc = "fetch"
    /\ ~FetchRefuses(proxy.fetchOptions[1])
    /\ proxy' = [proxy EXCEPT !.pc = "body", !.endTime = now,
                              !.response = <<response>>,
                              !.attempts = @ + 1]
    /\ UNCHANGED <<supabase, db, memoryHistory, memoryCollections,
                   memoryCollectionRequests, now, serial, budget, last, pre>>

\* server.js:109  contentType && contentType.includes('application/json')
DeclaresJson(contentType) ==
    contentType \in {"application/json", "application/json; charset=utf-8"}

\* JSON.parse of the texts the target answers with
JsonParse(text) == [ok |-> text = "[1]", value |-> [parsed |-> text]]

\* The number of characters of those texts
TextLength(text) == CASE text = "[1]" -> 3 [] text = "oops" -> 4

\* server.js:107-117  responseBody. response.json() reads the body and then
\* parses it; when the parse throws, response.text() finds the body used
\* and rejects (TypeError: body used already), which the inner catch does
\* not handle: ok is FALSE and the handler's catch answers.
ResponseBody(response) ==
    IF DeclaresJson(response.contentType)
      THEN IF JsonParse(response.text).ok
             THEN [ok |-> TRUE, body |-> JsonParse(response.text).value,
                   size |-> TextLength(response.text)]
             ELSE [ok |-> FALSE, body |-> <<>>, size |-> 0]
      ELSE [ok |-> TRUE, body |-> [raw |-> response.text],
            size |-> TextLength(response.text) + 2]

\* server.js:101-128  the headers of the response, as an object
ResponseHeaders(response) ==
    IF response.contentType = "" THEN <<>>
    ELSE <<<<"content-type", response.contentType>>>>

\* response.statusText
StatusText(status) == IF status = 200 THEN "OK" ELSE "Not Found"

\* server.js:107-138  the body is read and the answer is sent
BodySettles ==
    /\ proxy.pc = "body"
    /\ LET response == proxy.response[1]
           decoded == ResponseBody(response)
       IN  IF decoded.ok
             THEN proxy' = [proxy EXCEPT
                    !.pc = "done", !.http = 200,
                    !.sent = [status |-> response.status,
                              statusText |-> StatusText(response.status),
                              headers |-> ResponseHeaders(response),
                              body |-> decoded.body,
                              time |-> proxy.endTime - proxy.startTime,
                              size |-> decoded.size],
                    !.responses = @ + 1]
             ELSE proxy' = Caught("body", "body used already")
    /\ UNCHANGED <<supabase, db, memoryHistory, memoryCollections,
                   memoryCollectionRequests, now, serial, budget, last, pre>>

InitProxy == InitWith({0}, MaxProxyOps)

NextProxy ==
    \/ \E url \in ProxyUrls, method \in ProxyMethods, headers \in ProxyHeaders,
          body \in ProxyBodies, params \in ProxyParams :
         ProxyRequest(url, method, headers, body, params)
    \/ FetchThrows
    \/ \E message \in NetworkErrors : FetchFails(message)
    \/ \E response \in TargetResponses : FetchResolves(response)
    \/ BodySettles
    \/ Tick

SpecProxy == InitProxy /\ [][NextProxy]_vars

----------------------------------------------------------------------------
(* The storage endpoints when the durable client is bound (supabase).       *)
(* A table is the sequence of its rows in the order they were inserted.    *)
(* The datastore generates the id and the created_at of a row: both are    *)
(* the serial number of the insert, so ids are fresh and created_at grows  *)
(* with every insert. Every call of the client may come back with an       *)
(* error (ok = FALSE), which the handlers throw.                           *)

MaxDurableOps == 3     \* requests handled in one behaviour of SpecDurable

\* .order('created_at', { ascending: false })
NewestFirst(rows) == [i \in 1..Len(rows) |-> rows[Len(rows) + 1 - i]]

\* The answer every handler's catch sends.
Failed(op, args) == [op |-> op, args |-> args, status |-> 500, body |-> <<>>]

\* server.js:146-161  POST /api/history, durable branch
SaveHistoryDurable(url, method, headers, body, params, user_id, ok) ==
    /\ budget > 0
    /\ supabase
    /\ LET args == [NoArgs EXCEPT
                      !.user_id = user_id,
                      !.fields = [url |-> url, method |-> method,
                                  headers |-> headers, body |-> body,
                                  params |-> params]]
           row == [id |-> serial + 1, url |-> url, method |-> method,
                   headers |-> headers, body |-> body, params |-> params,
                   user_id |-> OrElse(user_id, "anonymous"),
                   created_at |-> serial + 1, seq |-> serial + 1]
       IN  IF ok
             THEN /\ db' = [db EXCEPT !.history = Append(@, row)]
                  /\ serial' = serial + 1
                  /\ last' = [op |-> "SaveHistory", args |-> args,
                              status |-> 200, body |-> <<row>>]
             ELSE /\ last' = Failed("SaveHistory", args)
                  /\ UNCHANGED <<db, serial>>
    /\ budget' = budget - 1
    /\ pre' = Store
    /\ UNCHANGED <<supabase, proxy, memoryHistory, memoryCollections,
                   memoryCollectionRequests, now>>

\* server.js:192-202  GET /api/history, durable branch; the datastore
\* refuses a negative limit
ListHistoryDurable(user_id, limitParam, ok) ==
    /\ budget > 0
    /\ supabase
    /\ LET userId == OrElse(user_id, "anonymous")
           limit == NumberOrElse(ParseInt(limitParam), DefaultLimit)
           args == [NoArgs EXCEPT !.user_id = user_id, !.limit = limitParam]
           rows == NewestFirst(SelectSeq(db.history,
                                         LAMBDA row : row.user_id = userId))
       IN  last' = IF ok /\ limit >= 0
                     THEN [op |-> "ListHistory", args |-> args,
                           status |-> 200,
                           body |-> SubSeq(rows, 1, Min(limit, Len(rows)))]
                     ELSE Failed("ListHistory", args)
    /\ budget' = budget - 1
    /\ pre' = Store
    /\ UNCHANGED <<supabase, db, proxy, memoryHistory, memoryCollections,
                   memoryCollectionRequests, now, serial>>

\* server.js:221-229  DELETE /api/history/:id, durable branch
DeleteHistoryDurable(id, user_id, ok) ==
    /\ budget > 0
    /\ supabase
    /\ LET args == [NoArgs EXCEPT !.id = id, !.user_id = user_id]
       IN  IF ok
             THEN /\ db' = [db EXCEPT !.history =
                              WithoutHistoryItem(@, id, user_id)]
                  /\ last' = [op |-> "DeleteHistory", args |-> args,
                              status |-> 200, body |-> <<>>]
             ELSE /\ last' = Failed("DeleteHistory", args)
                  /\ UNCHANGED db
    /\ budget' = budget - 1
    /\ pre' = Store
    /\ UNCHANGED <<supabase, proxy, memoryHistory, memoryCollections,
                   memoryCollectionRequests, now, serial>>

\* server.js:242-261  POST /api/collections, durable branch
CreateCollectionDurable(name, user_id, ok) ==
    /\ budget > 0
    /\ supabase
    /\ LET args == [NoArgs EXCEPT !.user_id = user_id, !.name = name]
           row == [id |-> serial + 1, name |-> name,
                   user_id |-> OrElse(user_id, "anonymous"),
                   created_at |-> serial + 1, seq |-> serial + 1]
       IN  IF NameMissing(name)
             THEN /\ last' = [op |-> "CreateCollection", args |-> args,
                              status |-> 400, body |-> <<>>]
                  /\ UNCHANGED <<db, serial>>
             ELSE IF ok
               THEN /\ db' = [db EXCEPT !.collections = Append(@, row)]
                    /\ serial' = serial + 1
                    /\ last' = [op |-> "CreateCollection", args |-> args,
                                status |-> 200, body |-> <<row>>]
               ELSE /\ last' = Failed("CreateCollection", args)
                    /\ UNCHANGED <<db, serial>>
    /\ budget' = budget - 1
    /\ pre' = Store
    /\ UNCHANGED <<supabase, proxy, memoryHistory, memoryCollections,
                   memoryCollectionRequests, now>>

\* server.js:285-293  GET /api/collections, durable branch
ListCollectionsDurable(user_id, ok) ==
    /\ budget > 0
    /\ supabase
    /\ LET args == [NoArgs EXCEPT !.user_id = user_id]
       IN  last' = IF ok
                     THEN [op |-> "ListCollections", args |-> args,
                           status |-> 200,
                           body |-> NewestFirst(
                               UserCollections(db.collections,
                                               OrElse(user_id, "anonymous")))]
                     ELSE Failed("ListCollections", args)
    /\ budget' = budget - 1
    /\ pre' = Store
    /\ UNCHANGED <<supabase, db, proxy, memoryHistory, memoryCollections,
                   memoryCollectionRequests, now, serial>>

\* server.js:310-318  DELETE /api/collections/:id, durable branch: the
\* handler deletes the row of the collection; whether the rows of its
\* requests go with it is the schema's choice (cascade), which the handler
\* does not make.
DeleteCollectionDurable(id, user_id, ok, cascade) ==
    /\ budget > 0
    /\ supabase
    /\ LET args == [NoArgs EXCEPT !.id = id, !.user_id = user_id]
           collections == WithoutCollection(db.collections, id, user_id)
       IN  IF ok
             THEN /\ db' = [db EXCEPT
                              !.collections = collections,
                              !.requests =
                                  IF cascade /\ collections # db.collections
                                    THEN WithoutRequestsOf(@, id) ELSE @]
                  /\ last' = [op |-> "DeleteCollection", args |-> args,
                              status |-> 200, body |-> <<>>]
             ELSE /\ last' = Failed("DeleteCollection", args)
                  /\ UNCHANGED db
    /\ budget' = budget - 1
    /\ pre' = Store
    /\ UNCHANGED <<supabase, proxy, memoryHistory, memoryCollections,
                   memoryCollectionRequests, now, serial>>

\* server.js:339-354  POST /api/collections/:id/requests, durable branch
AddCollectionRequestDurable(id, url, method, name, ok) ==
    /\ budget > 0
    /\ supabase
    /\ LET args == [NoArgs EXCEPT !.id = id]
       IN  IF (name = "" /\ ~ValidUrl(url)) \/ ~ok
             THEN /\ last' = Failed("AddCollectionRequest", args)
                  /\ UNCHANGED <<db, serial>>
             ELSE LET row == [id |-> serial + 1, collection_id |-> id,
                              url |-> url, method |-> method,
                              name |-> RequestName(name, method, url),
                              created_at |-> serial + 1, seq |-> serial + 1]
                  IN  /\ db' = [db EXCEPT !.requests = Append(@, row)]
                      /\ serial' = serial + 1
                      /\ last' = [op |-> "AddCollectionRequest",
                                  args |-> args, status |-> 200,
                                  body |-> <<row>>]
    /\ budget' = budget - 1
    /\ pre' = Store
    /\ UNCHANGED <<supabase, proxy, memoryHistory, memoryCollections,
                   memoryCollectionRequests, now>>

\* server.js:381-389  GET /api/collections/:id/requests, durable branch
ListCollectionRequestsDurable(id, ok) ==
    /\ budget > 0
    /\ supabase
    /\ LET args == [NoArgs EXCEPT !.id = id]
       IN  last' = IF ok
                     THEN [op |-> "ListCollectionRequests", args |-> args,
                           status |-> 200, body |-> RequestsOf(db.requests, id)]
                     ELSE Failed("ListCollectionRequests", args)
    /\ budget' = budget - 1
    /\ pre' = Store
    /\ UNCHANGED <<supabase, db, proxy, memoryHistory, memoryCollections,
                   memoryCollectionRequests, now, serial>>

\* server.js:530-548  GET /api/stats with a user_id, durable branch; a count
\* that comes back with an error is null, and null || 0 is 0
StatsDurable(user_id, ok) ==
    /\ budget > 0
    /\ supabase
    /\ user_id # ""
    /\ last' = [op |-> "Stats",
                args |-> [NoArgs EXCEPT !.user_id = user_id],
                status |-> 200,
                body |-> <<[historyCount |->
                              IF ok THEN Len(SelectSeq(db.history,
                                             LAMBDA h : h.user_id = user_id))
                              ELSE 0,
                            collectionsCount |->
                              IF ok THEN Len(UserCollections(db.collections,
                                                             user_id))
                              ELSE 0,
                            requestsCount |->
                              IF ok THEN Len(db.requests) ELSE 0]>>]
    /\ budget' = budget - 1
    /\ pre' = Store
    /\ UNCHANGED <<supabase, db, proxy, memoryHistory, memoryCollections,
                   memoryCollectionRequests, now, serial>>

\* The ids the durable DELETE and collection requests are tried with.
DbHistoryIds == {db.history[i].id : i \in DOMAIN db.history} \cup {MissingId}
DbCollectionIds ==
    {db.collections[i].id : i \in DOMAIN db.collections} \cup {MissingId}

\* The server started with the datastore configured.
InitDurable ==
    /\ supabase = TRUE
    /\ memoryHistory = <<>>
    /\ memoryCollections = <<>>
    /\ memoryCollectionRequests = <<>>
    /\ serial = 0
    /\ now = Prefill
    /\ budget = MaxDurableOps
    /\ last = [op |-> "none", args |-> NoArgs, status |-> 0, body |-> <<>>]
    /\ pre = Store
    /\ db = EmptyDb
    /\ proxy = ProxyIdle

NextDurable ==
    \/ \E url \in Urls, method \in Methods, user_id \in UserIds,
          ok \in BOOLEAN :
         SaveHistoryDurable(url, method, <<>>, "", <<>>, user_id, ok)
    \/ \E user_id \in UserIds, limitParam \in Limits, ok \in BOOLEAN :
         ListHistoryDurable(user_id, limitParam, ok)
    \/ \E id \in DbHistoryIds, user_id \in UserIds, ok \in BOOLEAN :
         DeleteHistoryDurable(id, user_id, ok)
    \/ \E name \in Names, user_id \in UserIds, ok \in BOOLEAN :
         CreateCollectionDurable(name, user_id, ok)
    \/ \E user_id \in UserIds, ok \in BOOLEAN :
         ListCollectionsDurable(user_id, ok)
    \/ \E id \in DbCollectionIds, user_id \in UserIds, ok \in BOOLEAN,
          cascade \in BOOLEAN :
         DeleteCollectionDurable(id, user_id, ok, cascade)
    \/ \E id \in DbCollectionIds, url \in RequestUrls, method \in Methods,
          name \in RequestNames, ok \in BOOLEAN :
         AddCollectionRequestDurable(id, url, method, name, ok)
    \/ \E id \in DbCollectionIds, ok \in BOOLEAN :
         ListCollectionRequestsDurable(id, ok)
    \/ \E user_id \in UserIds \ {""}, ok \in BOOLEAN : StatsDurable(user_id, ok)
    \/ \E user_id \in ClearUserIds : ClearAll(user_id)
    \/ \E user_id \in UserIds : Stats(user_id)

SpecDurable == InitDurable /\ [][NextDurable]_vars

----------------------------------------------------------------------------
(* POST /api/history handled while /api/proxy requests are in flight. The  *)
(* memory branch of a storage handler has no await: once it is entered it  *)
(* runs to its answer, so it is one step; an /api/proxy handler is         *)
(* suspended at its awaits (fetch, the body), and other handlers run in    *)
(* between.                                                                *)

MaxRacingOps == 3      \* requests handled in one behaviour of SpecRacing

\* The /api/proxy requests of SpecRacing: one that fetch refuses, one that
\* goes out.
RacingMethods == {"", "POST"}

InitRacing == InitWith({0, Prefill}, MaxRacingOps)

NextRacing ==
    \/ \E url \in Urls, method \in Methods, user_id \in UserIds :
         SaveHistory(url, method, <<>>, "", <<>>, user_id)
    \/ \E method \in RacingMethods :
         ProxyRequest(GoodUrl, method, <<>>, "payload", <<>>)
    \/ FetchThrows
    \/ \E message \in NetworkErrors : FetchFails(message)
    \/ \E response \in TargetResponses : FetchResolves(response)
    \/ BodySettles
    \/ Tick

SpecRacing == InitRacing /\ [][NextRacing]_vars

----------------------------------------------------------------------------
(* Every endpoint of the memory mode, the storage ones and /api/proxy,     *)
(* from the empty store.                                                   *)

MaxMixedOps == 3       \* requests handled in one behaviour of SpecMixed

\* The responses of the target in SpecMixed: one whose body is decoded and
\* one whose body makes the handler's catch run.
MixedResponses ==
    {[status |-> 404, contentType |-> "text/plain", text |-> "oops"],
     [status |-> 200, contentType |-> "application/json; charset=utf-8",
      text |-> "oops"]}

InitMixed == InitWith({0}, MaxMixedOps)

NextMixed ==
    \/ \E url \in Urls, method \in Methods, user_id \in UserIds :
         SaveHistory(url, method, <<>>, "", <<>>, user_id)
    \/ \E user_id \in UserIds, limitParam \in Limits :
         ListHistory(user_id, limitParam)
    \/ \E id \in HistoryIds, user_id \in UserIds : DeleteHistory(id, user_id)
    \/ \E name \in Names, user_id \in UserIds : CreateCollection(name, user_id)
    \/ \E user_id \in UserIds : ListCollections(user_id)
    \/ \E id \in CollectionIds, user_id \in UserIds : DeleteCollection(id, user_id)
    \/ \E id \in CollectionIds, url \in RequestUrls, method \in Methods,
          name \in RequestNames : AddCollectionRequest(id, url, method, name)
    \/ \E id \in CollectionIds : ListCollectionRequests(id)
    \/ \E user_id \in ClearUserIds : ClearAll(user_id)
    \/ \E user_id \in UserIds : Stats(user_id)
    \/ \E url \in ProxyUrls, method \in RacingMethods :
         ProxyRequest(url, method, <<>>, "payload", <<>>)
    \/ FetchThrows
    \/ \E message \in NetworkErrors : FetchFails(message)
    \/ \E response \in MixedResponses : FetchResolves(response)
    \/ BodySettles
    \/ Tick

SpecMixed == InitMixed /\ [][NextMixed]_vars

----------------------------------------------------------------------------
(* Properties of the history endpoints *)

\* The user a request acts for: user_id, or "anonymous" when it is absent.
Caller(args) == IF args.user_id = "" THEN "anonymous" ELSE args.user_id

\* C1: in memory mode at most 100 history items are retained in total, over
\* all users, after any sequence of SaveHistory, DeleteHistory and ClearAll;
\* and right after a SaveHistory the item it answered with is in the store.
C1_HistoryBounded ==
    /\ Len(memoryHistory) <= 100
    /\ last.op = "SaveHistory" =>
         \E i \in DOMAIN memoryHistory : memoryHistory[i] = last.body[1]

\* A SaveHistory that found the store full: more than 100 items were saved
\* in all, and the oldest one was evicted.
C1_Witness ==
    /\ last.op = "SaveHistory"
    /\ serial > 100
    /\ Len(pre.history) = 100
    /\ Len(memoryHistory) = 100

\* The limit a ListHistory request asks for, when it states one: 50 when
\* the parameter is absent, the number when it is an unsigned numeral.
IsNumeral(str) == str # <<>> /\ \A i \in DOMAIN str : str[i] \in Digits
StatesLimit(str) == str = <<>> \/ IsNumeral(str)
RequestedLimit(str) == IF str = <<>> THEN 50 ELSE DigitPrefix(str, 0)

\* C7: ListHistory(userId, limit) answers with the items of that user only,
\* newest first, and with exactly the min(limit, n) most recently inserted
\* of the n items retained for that user (limit = 50 when absent).
C7_ListHistory ==
    last.op = "ListHistory" /\ StatesLimit(last.args.limit) =>
        LET mine == SelectSeq(memoryHistory,
                              LAMBDA item : item.user_id = Caller(last.args))
            limit == RequestedLimit(last.args.limit)
        IN  /\ Len(last.body) <= limit
            /\ last.body = SubSeq(mine, 1, Min(limit, Len(mine)))
            /\ \A i, j \in DOMAIN last.body :
                 i < j => last.body[i].seq > last.body[j].seq

\* The same statement for the limits that are absent or at least 1.
C7_PositiveLimit ==
    last.op = "ListHistory" /\ StatesLimit(last.args.limit)
      /\ RequestedLimit(last.args.limit) >= 1 => C7_ListHistory

\* What DeleteHistory(id, userId) did to the history it found.
C9_Effect ==
    last.op = "DeleteHistory" =>
        /\ last.status = 200
        /\ memoryHistory =
             SelectSeq(pre.history, LAMBDA item :
                 ~(item.id = last.args.id /\ item.user_id = Caller(last.args)))
        /\ (\A i \in DOMAIN pre.history :
               ~(pre.history[i].id = last.args.id
                   /\ pre.history[i].user_id = Caller(last.args)))
             => memoryHistory = pre.history

\* C9: DeleteHistory(id, userId) removes exactly the items with that id and
\* that owner ("anonymous" when userId is absent), keeps every other item
\* in place, acknowledges even when nothing matches, and the same request
\* handled a second time changes nothing.
C9_DeleteHistory ==
    [][ /\ C9_Effect'
        /\ (last.op = "DeleteHistory" /\ last'.op = "DeleteHistory"
              /\ last'.args = last.args /\ budget' < budget)
             => memoryHistory' = memoryHistory ]_vars

\* A DeleteHistory that removed an item of its caller while an item with the
\* same id, owned by another user, stayed.
C9_Witness ==
    /\ last.op = "DeleteHistory"
    /\ Len(memoryHistory) < Len(pre.history)
    /\ \E i \in DOMAIN memoryHistory :
         /\ memoryHistory[i].id = last.args.id
         /\ memoryHistory[i].user_id # Caller(last.args)

----------------------------------------------------------------------------
(* Properties of the collection endpoints *)

\* The collections of c that have the given id.
CollectionsWithId(c, id) == {i \in DOMAIN c : c[i].id = id}

\* C2: after DeleteCollection(id, userId), whoever the caller is, no stored
\* CollectionRequest has collection_id = id, and a ListCollectionRequests(id)
\* handled next answers with the empty sequence.
C2_CascadeDelete ==
    [][ /\ (last'.op = "DeleteCollection" /\ budget' < budget)
             => \A i \in DOMAIN memoryCollectionRequests' :
                   memoryCollectionRequests'[i].collection_id # last'.args.id
        /\ (last.op = "DeleteCollection" /\ last'.op = "ListCollectionRequests"
              /\ last'.args.id = last.args.id /\ budget' < budget)
             => last'.status = 200 /\ last'.body = <<>> ]_vars

\* A DeleteCollection that found requests of the collection it deleted.
C2_Witness ==
    /\ last.op = "DeleteCollection"
    /\ CollectionsWithId(pre.collections, last.args.id) # {}
    /\ CollectionsWithId(memoryCollections, last.args.id) = {}
    /\ \E i \in DOMAIN pre.requests :
         pre.requests[i].collection_id = last.args.id

\* C3: AddCollectionRequest(collectionId, fields) with a collectionId that
\* no stored Collection has fails with NotFound (404) and leaves the stored
\* CollectionRequests, and so their count, unchanged.
C3_AddToMissingCollection ==
    last.op = "AddCollectionRequest"
      /\ CollectionsWithId(pre.collections, last.args.id) = {} =>
        /\ last.status = 404
        /\ memoryCollectionRequests = pre.requests

\* A name that is absent, empty or made of white space only.
BlankName(name) == \A i \in DOMAIN name : name[i] = " "

\* C4: CreateCollection with a name that is absent, empty or white space
\* only fails with a client error (400) and stores nothing: the collections,
\* and so ListCollections for every user, are as before the call.
C4_BlankNameRejected ==
    last.op = "CreateCollection" /\ BlankName(last.args.name) =>
        /\ last.status = 400
        /\ memoryCollections = pre.collections
        /\ \A u \in {"anonymous", "u1"} :
             UserCollections(memoryCollections, u) =
               UserCollections(pre.collections, u)

\* A CreateCollection with a white-space name, rejected on a store that
\* holds a collection.
C4_Witness ==
    /\ last.op = "CreateCollection"
    /\ last.args.name = <<" ", " ">>
    /\ last.status = 400
    /\ memoryCollections # <<>>

\* A request of r whose parent, among the collections c, is owned by u /
\* by somebody else.
ParentOwnedBy(req, c, u) ==
    \E i \in DOMAIN c : c[i].id = req.collection_id /\ c[i].user_id = u
ParentOwnedByOther(req, c, u) ==
    \E i \in DOMAIN c : c[i].id = req.collection_id /\ c[i].user_id # u

\* C5: after ClearAll(userId) with a userId, the store holds no HistoryItem
\* of that user, no Collection of that user, and no CollectionRequest whose
\* parent Collection belonged to that user when the call was made.
C5_ClearRemovesUserData ==
    last.op = "ClearAll" /\ last.args.user_id # "" =>
        /\ \A i \in DOMAIN memoryHistory :
             memoryHistory[i].user_id # last.args.user_id
        /\ \A i \in DOMAIN memoryCollections :
             memoryCollections[i].user_id # last.args.user_id
        /\ \A i \in DOMAIN memoryCollectionRequests :
             ~ParentOwnedBy(memoryCollectionRequests[i], pre.collections,
                            last.args.user_id)

\* C6: ClearAll(userId) with a userId keeps, unchanged and in the same
\* order, every HistoryItem and Collection owned by another user and every
\* CollectionRequest whose parent Collection is owned by another user.
C6_ClearKeepsOthers ==
    last.op = "ClearAll" /\ last.args.user_id # "" =>
        LET u == last.args.user_id
            Other(item) == item.user_id # u
            OthersRequest(req) == ParentOwnedByOther(req, pre.collections, u)
        IN  /\ SelectSeq(memoryHistory, Other) = SelectSeq(pre.history, Other)
            /\ SelectSeq(memoryCollections, Other) =
                 SelectSeq(pre.collections, Other)
            /\ SelectSeq(memoryCollectionRequests, OthersRequest) =
                 SelectSeq(pre.requests, OthersRequest)

\* A ClearAll(userId) that removed a collection of that user and found a
\* collection of another user, holding a request.
C6_Witness ==
    /\ last.op = "ClearAll"
    /\ last.args.user_id # ""
    /\ Len(memoryCollections) < Len(pre.collections)
    /\ \E i \in DOMAIN pre.requests :
         ParentOwnedByOther(pre.requests[i], pre.collections, last.args.user_id)

\* C8: ListCollectionRequests(collectionId) answers with the requests of
\* that collection oldest first, i.e. in the order AddCollectionRequest
\* inserted them (stated for a collection that exists).
C8_RequestsOldestFirst ==
    last.op = "ListCollectionRequests"
      /\ CollectionsWithId(memoryCollections, last.args.id) # {} =>
        /\ \A i \in DOMAIN last.body : last.body[i].collection_id = last.args.id
        /\ \A i, j \in DOMAIN last.body :
             i < j => last.body[i].seq < last.body[j].seq

\* Every stored request has a parent among the collections.
NoOrphans(store) ==
    \A i \in DOMAIN store.requests :
        CollectionsWithId(store.collections, store.requests[i].collection_id) # {}

\* C10: DeleteCollection(id, userId) when no Collection has that id and
\* that owner changes neither the collections nor the collection requests:
\* another user's collection keeps all of its requests (stated for a store
\* in which every request has a parent).
C10_DeleteOfForeignCollection ==
    last.op = "DeleteCollection" /\ NoOrphans(pre)
      /\ (\A i \in DOMAIN pre.collections :
            ~(pre.collections[i].id = last.args.id
                /\ pre.collections[i].user_id = Caller(last.args))) =>
        /\ memoryCollections = pre.collections
        /\ memoryCollectionRequests = pre.requests

----------------------------------------------------------------------------
(* Further properties of the history endpoints *)

\* C12: SaveHistory for user u (an absent userId being stored as
\* "anonymous") followed at once by ListHistory(u, limit) with limit >= 1
\* (50 when absent) answers with the saved item first, carrying the url,
\* method, headers, body and params of the request and a created_at; from the
\* empty store that item is the whole answer; and ListHistory for another
\* user does not contain it.
C12_SaveThenList ==
    [][ (last.op = "SaveHistory" /\ last'.op = "ListHistory"
           /\ budget' < budget /\ StatesLimit(last'.args.limit)
           /\ RequestedLimit(last'.args.limit) >= 1) =>
          LET saved == last.body[1]
              asked == last.args.fields
          IN  IF Caller(last'.args) = Caller(last.args)
                THEN /\ last'.body # <<>>
                     /\ last'.body[1] = saved
                     /\ saved.user_id = Caller(last.args)
                     /\ saved.url = asked.url
                     /\ saved.method = asked.method
                     /\ saved.headers = asked.headers
                     /\ saved.body = asked.body
                     /\ saved.params = asked.params
                     /\ saved.created_at > 0
                     /\ pre.history = <<>> => last'.body = <<saved>>
                ELSE \A i \in DOMAIN last'.body : last'.body[i] # saved ]_vars

\* A ListHistory that answered with the one item, with headers, body and
\* params, that its caller saved into the empty store.
C12_Witness ==
    /\ last.op = "ListHistory"
    /\ serial = 1
    /\ Len(last.body) = 1
    /\ last.body = memoryHistory
    /\ last.body[1].user_id = Caller(last.args)
    /\ last.body[1].headers = SomeHeaders
    /\ last.body[1].body = "payload"
    /\ last.body[1].params = SomeParams

\* The items of the sequence s.
Items(s) == {s[i] : i \in DOMAIN s}

\* The items a SaveHistory found in the store and did not leave there.
Discarded == Items(pre.history) \ Items(memoryHistory)

\* C18: SaveHistory evicts oldest first and over all users: it discards an
\* item only when 100 more recently inserted items are retained, the item
\* it discards is the oldest one it found, whoever owns it, and it discards
\* nothing when it found fewer than 100 items.
C18_EvictsOldestGlobally ==
    last.op = "SaveHistory" =>
        /\ Cardinality(Discarded) <= 1
        /\ Len(pre.history) < 100 => Discarded = {}
        /\ \A gone \in Discarded :
             /\ \A item \in Items(pre.history) : gone.seq <= item.seq
             /\ Cardinality({item \in Items(memoryHistory) :
                                item.seq > gone.seq}) = 100
        /\ Items(memoryHistory) \ Items(pre.history) = {last.body[1]}

\* A SaveHistory by one user that evicted the oldest item, owned by another.
C18_Witness ==
    /\ last.op = "SaveHistory"
    /\ \E gone \in Discarded : gone.user_id # last.body[1].user_id

\* C19: in every reachable state every stored CollectionRequest refers, by
\* its collection_id, to a Collection that is stored.
C19_RequestsHaveParents == NoOrphans(Store)

\* No two elements of s have the same id.
UniqueIds(s) == \A i, j \in DOMAIN s : i # j => s[i].id # s[j].id

\* C20: identifiers are unique per entity type in every reachable state,
\* also when several inserts are handled in the same millisecond, so that
\* a DeleteHistory removes at most one item.
C20_UniqueIds ==
    /\ UniqueIds(memoryHistory)
    /\ UniqueIds(memoryCollections)
    /\ UniqueIds(memoryCollectionRequests)
    /\ last.op = "DeleteHistory" =>
         Len(pre.history) - Len(memoryHistory) <= 1

----------------------------------------------------------------------------
(* Properties of the relay endpoint *)

\* The parser of application/x-www-form-urlencoded, which the target reads
\* the query string with: the pieces between the & signs, each cut at its
\* first = sign, + read as a space and %XX as the character it encodes.
RECURSIVE SplitAt(_, _, _)
SplitAt(s, c, piece) ==
    IF s = <<>> THEN <<piece>>
    ELSE IF Head(s) = c THEN <<piece>> \o SplitAt(Tail(s), c, <<>>)
    ELSE SplitAt(Tail(s), c, Append(piece, Head(s)))

PercentChar(a, b) ==
    CASE <<a, b>> = <<"2", "6">> -> "&"
      [] <<a, b>> = <<"3", "D">> -> "="
      [] <<a, b>> = <<"2", "B">> -> "+"
      [] <<a, b>> = <<"2", "5">> -> "%"
      [] OTHER -> "?"

RECURSIVE FormDecode(_)
FormDecode(s) ==
    IF s = <<>> THEN <<>>
    ELSE IF Head(s) = "+" THEN <<" ">> \o FormDecode(Tail(s))
    ELSE IF Head(s) = "%" /\ Len(s) >= 3
           THEN <<PercentChar(s[2], s[3])>> \o FormDecode(SubSeq(s, 4, Len(s)))
    ELSE <<Head(s)>> \o FormDecode(Tail(s))

KeyOf(piece) == SplitAt(piece, "=", <<>>)[1]
ValueOf(piece) ==
    IF Len(KeyOf(piece)) >= Len(piece) THEN <<>>
    ELSE SubSeq(piece, Len(KeyOf(piece)) + 2, Len(piece))

ParseQuery(q) ==
    IF q = <<>> THEN <<>>
    ELSE LET pieces == SplitAt(q, "&", <<>>)
         IN  [i \in 1..Len(pieces) |->
                <<FormDecode(KeyOf(pieces[i])), FormDecode(ValueOf(pieces[i]))>>]

\* The request in hand passed the validation of its url.
Relayed == proxy.pc # "idle" /\ proxy.request.url.scheme # ""

\* C13: when params is not empty, the relay appends to the target url a
\* query string that holds exactly the entries of params whose key and value
\* are both non-empty, in their order; an entry with an empty key or an empty
\* value is left out.
C13_QueryString ==
    Relayed /\ proxy.request.params # <<>> =>
        /\ proxy.finalUrl.url = proxy.request.url
        /\ Head(proxy.finalUrl.appended) = "?"
        /\ ParseQuery(Tail(proxy.finalUrl.appended)) =
             SelectSeq(proxy.request.params,
                       LAMBDA entry : entry[1] # <<>> /\ entry[2] # <<>>)

\* The outbound call was made for {a: "1", b: ""}, with the query a=1.
C13_Witness ==
    /\ proxy.attempts = 1
    /\ proxy.request.params = << <<<<"a">>, <<"1">>>>, <<<<"b">>, <<>>>> >>
    /\ proxy.finalUrl.appended = <<"?", "a", "=", "1">>

\* C14: the outbound request has a body only when the effective method (the
\* method of the request, GET when there is none) is neither GET nor HEAD
\* and the request has a body; a request with a body and no method is sent
\* as a GET without a body.
C14_BodyOnlyWhenAllowed ==
    Relayed =>
        LET effective == IF proxy.request.method = "" THEN "GET"
                         ELSE proxy.request.method
            options == proxy.fetchOptions[1]
        IN  /\ options.method = effective
            /\ options.body # <<>> <=>
                 (effective \notin {"GET", "HEAD"} /\ proxy.request.body # "")
            /\ (proxy.pc = "done" /\ proxy.request.method = ""
                  /\ proxy.request.body # "") =>
                 proxy.attempts = 1 /\ proxy.failure # "request"

NetworkFailure == proxy.pc = "done" /\ proxy.failure = "network"

C17_FallsBackToText ==
    (/\ proxy.pc = "done"
     /\ proxy.response # <<>>
     /\ DeclaresJson(proxy.response[1].contentType)
     /\ ~JsonParse(proxy.response[1].text).ok) =>
        /\ proxy.http = 200
        /\ proxy.sent.status = proxy.response[1].status
        /\ proxy.sent.body = [raw |-> proxy.response[1].text]

----------------------------------------------------------------------------
(* Properties of the choice of the backend *)

\* The rows of the durable tables that a request with this user_id is about:
\* all of them when there is no user_id.
InScope(rows, user_id) ==
    IF user_id = "" THEN rows
    ELSE SelectSeq(rows, LAMBDA row : row.user_id = user_id)

\* The answer of the last request is the one the durable tables give.
ServedByDurable ==
    /\ Store = [history |-> <<>>, collections |-> <<>>, requests |-> <<>>]
    /\ last.status = 200 =>
         /\ last.op \in {"SaveHistory", "ListHistory"} =>
              Items(last.body) \subseteq Items(db.history)
         /\ last.op \in {"CreateCollection", "ListCollections"} =>
              Items(last.body) \subseteq Items(db.collections)
         /\ last.op \in {"AddCollectionRequest", "ListCollectionRequests"} =>
              Items(last.body) \subseteq Items(db.requests)
         /\ last.op = "ClearAll" =>
              /\ InScope(db.history, last.args.user_id) = <<>>
              /\ InScope(db.collections, last.args.user_id) = <<>>
              /\ last.args.user_id = "" => db.requests = <<>>
         /\ (last.op = "Stats" /\ last.args.user_id = "") =>
              /\ last.body[1].historyCount = Len(db.history)
              /\ last.body[1].collectionsCount = Len(db.collections)
              /\ last.body[1].requestsCount = Len(db.requests)
         /\ (last.op = "Stats" /\ last.args.user_id # "") =>
              /\ last.body[1].historyCount \in
                   {0, Len(InScope(db.history, last.args.user_id))}
              /\ last.body[1].collectionsCount \in
                   {0, Len(InScope(db.collections, last.args.user_id))}
              /\ last.body[1].requestsCount \in {0, Len(db.requests)}

\* C11: the backend bound at start never changes, and when the durable one
\* is bound every storage operation, ClearAll and Stats with or without a
\* userId included, is served by it: the in-memory sequences are never
\* written, and every answer is the one the durable tables give.
C11_BoundBackendOnly ==
    /\ [](supabase => ServedByDurable)
    /\ [][supabase' = supabase]_vars

----------------------------------------------------------------------------
(* Properties of handlers that race *)

\* The serial numbers of the stored history items, in the order of the store.
HistorySeqs == [i \in DOMAIN memoryHistory |-> memoryHistory[i].seq]

\* C21: whatever the order in which SaveHistory requests are handled, and
\* whatever /api/proxy requests are suspended meanwhile, no insert is lost:
\* after k inserts in all the store holds all k items when k <= 100, and
\* exactly the 100 inserted last when k > 100, newest first; and a step of
\* an /api/proxy handler leaves the store as it is.
C21_NoLostUpdate ==
    [][ /\ Len(memoryHistory') = Min(serial', 100)
        /\ HistorySeqs' = [i \in 1..Min(serial', 100) |-> serial' + 1 - i]
        /\ proxy' # proxy => Store' = Store ]_vars

\* An item was saved into the full store, a millisecond after an /api/proxy
\* request started that is still awaiting fetch.
C21_Witness ==
    /\ last.op = "SaveHistory"
    /\ serial > 100
    /\ Len(memoryHistory) = 100
    /\ proxy.pc = "fetch"
    /\ proxy.startTime < last.body[1].created_at

----------------------------------------------------------------------------
(* Properties of the answers *)

\* The status of an error response.
IsError(status) == status >= 400 /\ status <= 599

\* C22: in memory mode every request is answered exactly once: a storage
\* request by the step that handles it, an /api/proxy request once and only
\* when its handler is done; and whenever the answer is an error (a missing
\* url, a blank collection name, any exception caught) the three stored
\* sequences are as the request found them. (A step that lowers budget and
\* leaves proxy as it is handles a storage request, or an /api/proxy request
\* that gets the answer the one before it got.)
C22_OneAnswerErrorsChangeNothing ==
    [][ /\ (budget' < budget /\ proxy' = proxy) =>
             \/ /\ last'.op # "none"
                /\ last'.status \in {200, 400, 500}
                /\ pre' = Store
                /\ IsError(last'.status) => Store' = Store
                /\ (last'.op = "CreateCollection"
                      /\ BlankName(last'.args.name)) => last'.status = 400
             \/ /\ proxy.pc = "done"
                /\ last' = last /\ pre' = pre /\ Store' = Store
        /\ proxy' # proxy =>
             /\ last' = last
             /\ proxy'.responses = IF proxy'.pc = "done" THEN 1 ELSE 0
             /\ proxy'.pc = "done" => proxy'.http \in {200, 400, 500}
             /\ proxy'.request.url = NoUrl => proxy'.http = 400
             /\ Store' = Store ]_vars

\* A collection request with no name and a malformed url was answered 500 on
\* a store that holds a request, after an /api/proxy request without a url
\* was answered 400.
C22_Witness ==
    /\ last.op = "AddCollectionRequest"
    /\ last.status = 500
    /\ memoryCollectionRequests # <<>>
    /\ memoryCollectionRequests = pre.requests
    /\ proxy.pc = "done"
    /\ proxy.http = 400
    /\ proxy.request.url = NoUrl

====
